---- MODULE Spec2Model ----
(***************************************************************************)
(* A state-machine model of src/triangle.cpp: one thread that sets up a   *)
(* GLFW window and an OpenGL context, compiles and links two shaders,     *)
(* uploads one triangle, renders it in a loop until the window's close    *)
(* flag is set, and tears everything down.                                *)
(*                                                                         *)
(* The window layer (GLFW) and the driver (OpenGL) are mocks that record   *)
(* every call: `glfw`/`win` hold the window-layer state, `gl` the driver   *)
(* state with per-object create/delete counts and a command counter.       *)
(* Floats are scaled integers: vertex coordinates in tenths, colours in    *)
(* hundredths.                                                             *)
(***************************************************************************)
EXTENDS Integers, Sequences, FiniteSets, TLC

VARIABLES pc,          \* position of main()
          win,         \* the GLFWwindow: handle, close flag, key state
          glfw,        \* the window layer: context, callback, terminate calls
          gl,          \* the OpenGL driver state and its call counters
          log,         \* spdlog::error messages, in order
          exitStatus,  \* <<>> while running, <<status>> once main returned
          iter,        \* number of loop iterations started
          frame,       \* the steps performed so far in the current iteration
          hist         \* observations of the harness (see HistInit)

vars == <<pc, win, glfw, gl, log, exitStatus, iter, frame, hist>>

----------------------------------------------------------------------------
(* Bounds of the model *)

MaxFrames == 3     \* loop iterations explored
MaxEvents == 2     \* events one glfwPollEvents call dispatches at most

(* Framebuffer sizes a resize event may carry *)
Widths  == {640, 1024}
Heights == {480, 768}

----------------------------------------------------------------------------
(* Program constants *)

WINDOW_WIDTH  == 800
WINDOW_HEIGHT == 600

SizeofFloat == 4
SizeofUInt  == 4

vertices == << -5, -5, 0,   5, -5, 0,   0, 5, 0 >>
indices  == << 0, 1, 2 >>
ClearColour == << 11, 11, 11, 100 >>

VertexMsg   == "Vertex shader compilation failed"
FragmentMsg == "Fragment shader compilation failed"
ProgramMsg  == "Shader program compilation failed"
WindowMsg   == "Failed to create a GLFW window. Exiting."
GladMsg     == "Failed to initialize GLAD"

Shaders == {"vertex_shader", "fragment_shader"}
Buffers == {"VBO", "EBO"}
Objects == Shaders \cup Buffers \cup {"shader_program", "VAO"}

----------------------------------------------------------------------------
(* The OpenGL driver mock *)

NoAttrib == [buffer |-> "0", size |-> 0, type |-> "none", normalized |-> FALSE,
             stride |-> 0, offset |-> 0, enabled |-> FALSE]

NoDraw == [mode |-> "none", count |-> 0, type |-> "none", offset |-> 0,
           vao |-> "0", element |-> "0", program |-> "0", attrib |-> NoAttrib]

GLInit ==
    [loaded |-> FALSE, calls |-> 0, early |-> 0,
     viewport |-> <<0, 0, 0, 0>>, viewportCalls |-> 0,
     created |-> [o \in Objects |-> 0], deleted |-> [o \in Objects |-> 0],
     source |-> [s \in Shaders |-> "none"],
     compiles |-> [s \in Shaders |-> 0],
     compiled |-> [s \in Shaders |-> FALSE],
     attached |-> {}, links |-> 0, linked |-> FALSE,
     arrayBuffer |-> "0", boundVAO |-> "0", vaoElement |-> "0",
     attrib0 |-> NoAttrib,
     bufData |-> [b \in Buffers |-> [size |-> 0, data |-> <<>>, usage |-> "none"]],
     program |-> "0", clearColour |-> <<0, 0, 0, 0>>, clears |-> 0,
     draws |-> 0, lastDraw |-> NoDraw, deleteOrder |-> <<>>]

(* Object creation is taken to succeed: glCreateShader, glCreateProgram and
   glGen* hand out a fresh name each. *)

(* Every gl* command is counted; one issued before the loader succeeded is
   counted in `early` as well. *)
Cmd(g) == [g EXCEPT !.calls = @ + 1, !.early = IF g.loaded THEN @ ELSE @ + 1]

glViewport(g, x, y, w, h) ==
    [Cmd(g) EXCEPT !.viewport = <<x, y, w, h>>, !.viewportCalls = @ + 1]

glCreate(g, o) == [Cmd(g) EXCEPT !.created[o] = @ + 1]

glDelete(g, o) ==
    [Cmd(g) EXCEPT !.deleted[o] = @ + 1, !.deleteOrder = Append(@, o)]

glShaderSource(g, s, src) == [Cmd(g) EXCEPT !.source[s] = src]

(* ok is the driver's verdict on the source *)
glCompileShader(g, s, ok) ==
    [Cmd(g) EXCEPT !.compiles[s] = @ + 1, !.compiled[s] = ok]

glAttachShader(g, s) == [Cmd(g) EXCEPT !.attached = @ \cup {s}]

(* A program links only if every attached shader compiled; ok is the
   driver's verdict otherwise. *)
glLinkProgram(g, ok) ==
    [Cmd(g) EXCEPT !.links = @ + 1,
                   !.linked = ok /\ g.attached = Shaders
                                 /\ \A s \in g.attached : g.compiled[s]]

(* glGetShaderiv / glGetProgramiv / gl*InfoLog: queries, state unchanged *)
glGet(g) == Cmd(g)

glBindVertexArray(g, v) == [Cmd(g) EXCEPT !.boundVAO = v]

(* The element-array binding is part of the bound vertex array's state. *)
glBindBuffer(g, target, b) ==
    IF target = "GL_ARRAY_BUFFER"
    THEN [Cmd(g) EXCEPT !.arrayBuffer = b]
    ELSE [Cmd(g) EXCEPT !.vaoElement = IF g.boundVAO = "VAO" THEN b ELSE @]

BoundBuffer(g, target) ==
    IF target = "GL_ARRAY_BUFFER" THEN g.arrayBuffer
    ELSE IF g.boundVAO = "VAO" THEN g.vaoElement ELSE "0"

(* Copies `size` bytes of 4-byte elements from data into the bound buffer. *)
glBufferData(g, target, size, data, usage) ==
    LET b == BoundBuffer(g, target)
        n == size \div SizeofFloat
    IN  IF b \in Buffers
        THEN [Cmd(g) EXCEPT !.bufData[b] =
                 [size |-> size,
                  data |-> SubSeq(data, 1, IF n <= Len(data) THEN n ELSE Len(data)),
                  usage |-> usage]]
        ELSE Cmd(g)

glVertexAttribPointer(g, size, type, normalized, stride, offset) ==
    [Cmd(g) EXCEPT !.attrib0 =
        [buffer |-> g.arrayBuffer, size |-> size, type |-> type,
         normalized |-> normalized, stride |-> stride, offset |-> offset,
         enabled |-> g.attrib0.enabled]]

glEnableVertexAttribArray(g) == [Cmd(g) EXCEPT !.attrib0.enabled = TRUE]

glClearColor(g, c) == [Cmd(g) EXCEPT !.clearColour = c]

glClear(g) == [Cmd(g) EXCEPT !.clears = @ + 1]

glUseProgram(g, p) == [Cmd(g) EXCEPT !.program = p]

glDrawElements(g, mode, count, type, offset) ==
    [Cmd(g) EXCEPT !.draws = @ + 1,
        !.lastDraw = [mode |-> mode, count |-> count, type |-> type,
                      offset |-> offset, vao |-> g.boundVAO,
                      element |-> BoundBuffer(g, "GL_ELEMENT_ARRAY_BUFFER"),
                      program |-> g.program,
                      attrib |-> IF g.boundVAO = "VAO" THEN g.attrib0 ELSE NoAttrib]]

----------------------------------------------------------------------------
(* The window layer mock *)

WinInit == [handle |-> "none", shouldClose |-> FALSE, escKey |-> "RELEASE",
            setCalls |-> 0]

GlfwInit == [inited |-> FALSE, current |-> FALSE, resizeCb |-> FALSE,
             terminates |-> 0, destroyed |-> 0, swaps |-> 0, loads |-> 0]

glfwSetWindowShouldClose(w, v) ==
    [w EXCEPT !.shouldClose = v, !.setCalls = @ + 1]

(* glfwTerminate destroys every remaining window and its context. *)
glfwTerminate(f, w) ==
    [f EXCEPT !.terminates = @ + 1, !.current = FALSE,
              !.destroyed = IF w.handle = "open" THEN @ + 1 ELSE @]

TerminatedWindow(w) ==
    [w EXCEPT !.handle = IF @ = "open" THEN "destroyed" ELSE @]

HistInit == [entrySetCalls |-> 0,   \* win.setCalls when the iteration began
             escSeen |-> FALSE,     \* the Escape check saw the key pressed
             flagIter |-> 0,        \* iteration in which the flag became set
             resizes |-> 0,         \* resize events delivered
             lastResize |-> <<0, 0>>,
             polled |-> 0,          \* events dispatched by the current poll
             loopExited |-> FALSE]

(* Records the iteration in which the close flag went from unset to set. *)
NoteFlag(h, w, w2, i) ==
    [h EXCEPT !.flagIter = IF ~w.shouldClose /\ w2.shouldClose THEN i ELSE @]

----------------------------------------------------------------------------
Init ==
    /\ pc = "init"
    /\ win = WinInit
    /\ glfw = GlfwInit
    /\ gl = GLInit
    /\ log = <<>>
    /\ exitStatus = <<>>
    /\ iter = 0
    /\ frame = <<>>
    /\ hist = HistInit

(* lines 31-43: glfwInit and the three window hints *)
InitGlfw ==
    /\ pc = "init"
    /\ glfw' = [glfw EXCEPT !.inited = TRUE]
    /\ pc' = "create_window"
    /\ UNCHANGED <<win, gl, log, exitStatus, iter, frame, hist>>


(* lines 45-52: glfwCreateWindow; on a null window log, terminate, return -1.
   created is the window layer's outcome. *)
(* Mutant: the window-failure path returns without glfwTerminate. *)
WindowFailureLeak(f, w) == f

WindowFailure(f, w) == glfwTerminate(f, w)

CreateWindow ==
    /\ pc = "create_window"
    /\ \E created \in BOOLEAN :
         IF created
         THEN /\ win' = [win EXCEPT !.handle = "open"]
              /\ pc' = "make_current"
              /\ UNCHANGED <<glfw, log, exitStatus>>
         ELSE /\ win' = [win EXCEPT !.handle = "null"]
              /\ log' = Append(log, WindowMsg)
              /\ glfw' = WindowFailure(glfw, win)
              /\ exitStatus' = << -1 >>
              /\ pc' = "done"
    /\ UNCHANGED <<gl, iter, frame, hist>>

(* lines 58-59: make the context current, register the resize callback *)
MakeContextCurrent ==
    /\ pc = "make_current"
    /\ glfw' = [glfw EXCEPT !.current = TRUE, !.resizeCb = TRUE]
    /\ pc' = "load_glad"
    /\ UNCHANGED <<win, gl, log, exitStatus, iter, frame, hist>>

(* Mutant: the loader's result is ignored and setup goes on. *)
LoadGladUnchecked ==
    /\ pc = "load_glad"
    /\ \E loaded \in BOOLEAN :
         /\ gl' = [gl EXCEPT !.loaded = loaded /\ glfw.current]
         /\ glfw' = [glfw EXCEPT !.loads = @ + 1]
    /\ pc' = "viewport"
    /\ UNCHANGED <<win, log, exitStatus, iter, frame, hist>>

(* lines 62-65: gladLoadGLLoader; on failure log and return -1 (no
   glfwTerminate on this path). loaded is the loader's outcome. *)
(* Mutant: the loader-failure path returns 0. *)
GladFailureStatusZero(loaded) == IF loaded THEN <<>> ELSE <<0>>

GladFailureStatus(loaded) == IF loaded THEN <<>> ELSE << -1 >>

LoadGlad ==
    /\ pc = "load_glad"
    /\ \E loaded \in BOOLEAN :
         /\ gl' = [gl EXCEPT !.loaded = loaded /\ glfw.current]
         /\ glfw' = [glfw EXCEPT !.loads = @ + 1]
         /\ exitStatus' = GladFailureStatus(loaded)
         /\ IF loaded
            THEN /\ pc' = "viewport"
                 /\ log' = log
            ELSE /\ pc' = "done"
                 /\ log' = Append(log, GladMsg)
    /\ UNCHANGED <<win, iter, frame, hist>>

(* line 70 *)
SetViewport ==
    /\ pc = "viewport"
    /\ gl' = glViewport(gl, 0, 0, WINDOW_WIDTH, WINDOW_HEIGHT)
    /\ pc' = "vertex_shader"
    /\ UNCHANGED <<win, glfw, log, exitStatus, iter, frame, hist>>

(* lines 73-81 and 99-102: create a shader, give it its source, compile it *)
CompileShader(g, s, ok) ==
    glCompileShader(glShaderSource(glCreate(g, s), s, s), s, ok)

(* lines 87-91, 104-108, 119-123: query the status; on failure fetch the
   info log *)
QueryStatus(g, success) == IF success THEN glGet(g) ELSE glGet(glGet(g))

(* Mutant: the status test is inverted. *)
ReportSuccess(lg, success, msg) == IF success THEN Append(lg, msg) ELSE lg

(* ... and report it with spdlog::error; nothing else is done about it *)
ReportFailure(lg, success, msg) == IF success THEN lg ELSE Append(lg, msg)

(* lines 73-91 *)
VertexShader ==
    /\ pc = "vertex_shader"
    /\ \E ok \in BOOLEAN :
         LET g == CompileShader(gl, "vertex_shader", ok)
             success == g.compiled["vertex_shader"]
         IN  /\ gl' = QueryStatus(g, success)
             /\ log' = ReportFailure(log, success, VertexMsg)
    /\ pc' = "fragment_shader"
    /\ UNCHANGED <<win, glfw, exitStatus, iter, frame, hist>>

(* lines 99-108 *)
FragmentShader ==
    /\ pc = "fragment_shader"
    /\ \E ok \in BOOLEAN :
         LET g == CompileShader(gl, "fragment_shader", ok)
             success == g.compiled["fragment_shader"]
         IN  /\ gl' = QueryStatus(g, success)
             /\ log' = ReportFailure(log, success, FragmentMsg)
    /\ pc' = "link_program"
    /\ UNCHANGED <<win, glfw, exitStatus, iter, frame, hist>>

(* lines 111-123 *)
LinkProgram ==
    /\ pc = "link_program"
    /\ \E ok \in BOOLEAN :
         LET g0 == glCreate(gl, "shader_program")
             g1 == glAttachShader(glAttachShader(g0, "vertex_shader"),
                                  "fragment_shader")
             g2 == glLinkProgram(g1, ok)
         IN  /\ gl' = QueryStatus(g2, g2.linked)
             /\ log' = ReportFailure(log, g2.linked, ProgramMsg)
    /\ pc' = "delete_shaders"
    /\ UNCHANGED <<win, glfw, exitStatus, iter, frame, hist>>

(* lines 125-126 *)
DeleteShaders ==
    /\ pc = "delete_shaders"
    /\ gl' = glDelete(glDelete(gl, "vertex_shader"), "fragment_shader")
    /\ pc' = "gen_objects"
    /\ UNCHANGED <<win, glfw, log, exitStatus, iter, frame, hist>>

(* lines 148-154 *)
GenObjects ==
    /\ pc = "gen_objects"
    /\ gl' = glBindVertexArray(
                glCreate(glCreate(glCreate(gl, "VAO"), "VBO"), "EBO"), "VAO")
    /\ pc' = "upload_vertices"
    /\ UNCHANGED <<win, glfw, log, exitStatus, iter, frame, hist>>

(* lines 166-167: sizeof(vertices) bytes *)
UploadVertices ==
    /\ pc = "upload_vertices"
    /\ gl' = glBufferData(glBindBuffer(gl, "GL_ARRAY_BUFFER", "VBO"),
                          "GL_ARRAY_BUFFER", Len(vertices) * SizeofFloat,
                          vertices, "GL_STATIC_DRAW")
    /\ pc' = "upload_indices"
    /\ UNCHANGED <<win, glfw, log, exitStatus, iter, frame, hist>>

(* lines 174-175: sizeof(indices) bytes *)
UploadIndices ==
    /\ pc = "upload_indices"
    /\ gl' = glBufferData(glBindBuffer(gl, "GL_ELEMENT_ARRAY_BUFFER", "EBO"),
                          "GL_ELEMENT_ARRAY_BUFFER", Len(indices) * SizeofUInt,
                          indices, "GL_STATIC_DRAW")
    /\ pc' = "vertex_layout"
    /\ UNCHANGED <<win, glfw, log, exitStatus, iter, frame, hist>>

(* lines 208-209 *)
VertexLayout ==
    /\ pc = "vertex_layout"
    /\ gl' = glEnableVertexAttribArray(
                glVertexAttribPointer(gl, 3, "GL_FLOAT", FALSE,
                                      3 * SizeofFloat, 0))
    /\ pc' = "loop_cond"
    /\ UNCHANGED <<win, glfw, log, exitStatus, iter, frame, hist>>

----------------------------------------------------------------------------
(* The render loop, lines 215-248 *)

(* Mutant: the loop tests the Escape key instead of the close flag. *)
LoopConditionKey(w) == w.escKey # "PRESS"

(* line 215: !glfwWindowShouldClose(window) *)
LoopCondition(w) == ~w.shouldClose

LoopCond ==
    /\ pc = "loop_cond"
    /\ IF LoopCondition(win)
       THEN /\ iter < MaxFrames
            /\ iter' = iter + 1
            /\ frame' = <<>>
            /\ hist' = [hist EXCEPT !.entrySetCalls = win.setCalls,
                                    !.escSeen = FALSE]
            /\ pc' = "esc_check"
       ELSE /\ hist' = [hist EXCEPT !.loopExited = TRUE]
            /\ pc' = "teardown"
            /\ UNCHANGED <<iter, frame>>
    /\ UNCHANGED <<win, glfw, gl, log, exitStatus>>

(* Mutant: the callback passes false to glfwSetWindowShouldClose. *)
escape_key_clears_callback(w) ==
    IF w.escKey = "PRESS" THEN glfwSetWindowShouldClose(w, FALSE) ELSE w

(* lines 264-269 *)
escape_key_pressed_callback(w) ==
    IF w.escKey = "PRESS" THEN glfwSetWindowShouldClose(w, TRUE) ELSE w

(* Mutant: the loop is left as soon as the Escape check set the flag. *)
EscapeCheckBreak ==
    /\ pc = "esc_check"
    /\ win' = escape_key_pressed_callback(win)
    /\ hist' = NoteFlag([hist EXCEPT !.escSeen = (win.escKey = "PRESS")],
                        win, win', iter)
    /\ frame' = Append(frame, "esc_check")
    /\ pc' = IF win'.shouldClose THEN "loop_cond" ELSE "clear"
    /\ UNCHANGED <<glfw, gl, log, exitStatus, iter>>

(* line 217 *)
EscapeCheck ==
    /\ pc = "esc_check"
    /\ win' = escape_key_pressed_callback(win)
    /\ hist' = NoteFlag([hist EXCEPT !.escSeen = (win.escKey = "PRESS")],
                        win, win', iter)
    /\ frame' = Append(frame, "esc_check")
    /\ pc' = "clear"
    /\ UNCHANGED <<glfw, gl, log, exitStatus, iter>>

(* lines 225-226 *)
Clear ==
    /\ pc = "clear"
    /\ gl' = glClear(glClearColor(gl, ClearColour))
    /\ frame' = Append(frame, "clear")
    /\ pc' = "bind"
    /\ UNCHANGED <<win, glfw, log, exitStatus, iter, hist>>

(* lines 231-232 *)
Bind ==
    /\ pc = "bind"
    /\ gl' = glBindVertexArray(glUseProgram(gl, "shader_program"), "VAO")
    /\ frame' = frame \o <<"use_program", "bind_vao">>
    /\ pc' = "draw"
    /\ UNCHANGED <<win, glfw, log, exitStatus, iter, hist>>

(* Mutant: the draw asks for the six indices of a rectangle. *)
DrawCallSix(g) == glDrawElements(g, "GL_TRIANGLES", 6, "GL_UNSIGNED_INT", 0)

(* line 234 *)
DrawCall(g) == glDrawElements(g, "GL_TRIANGLES", 3, "GL_UNSIGNED_INT", 0)

Draw ==
    /\ pc = "draw"
    /\ gl' = DrawCall(gl)
    /\ frame' = Append(frame, "draw")
    /\ pc' = "unbind"
    /\ UNCHANGED <<win, glfw, log, exitStatus, iter, hist>>

(* line 236 *)
Unbind ==
    /\ pc = "unbind"
    /\ gl' = glBindVertexArray(gl, "0")
    /\ frame' = Append(frame, "unbind_vao")
    /\ pc' = "swap"
    /\ UNCHANGED <<win, glfw, log, exitStatus, iter, hist>>

(* line 241 *)
SwapBuffers ==
    /\ pc = "swap"
    /\ glfw' = [glfw EXCEPT !.swaps = @ + 1]
    /\ frame' = Append(frame, "swap")
    /\ hist' = [hist EXCEPT !.polled = 0]
    /\ pc' = "poll"
    /\ UNCHANGED <<win, gl, log, exitStatus, iter>>

(* Mutant: width and height are passed in the wrong order. *)
framebuffer_resize_callback_swapped(g, width, height) ==
    glViewport(g, 0, 0, height, width)

(* lines 259-262 *)
framebuffer_resize_callback(g, width, height) ==
    glViewport(g, 0, 0, width, height)

(* line 247, glfwPollEvents: the queued events are dispatched one by one on
   this thread. A framebuffer-size event runs the registered callback. *)
ResizeEvent ==
    /\ pc = "poll"
    /\ hist.polled < MaxEvents
    /\ glfw.resizeCb
    /\ \E w \in Widths, h \in Heights :
         /\ gl' = framebuffer_resize_callback(gl, w, h)
         /\ hist' = [hist EXCEPT !.polled = @ + 1, !.resizes = @ + 1,
                                 !.lastResize = <<w, h>>]
    /\ UNCHANGED <<pc, win, glfw, log, exitStatus, iter, frame>>

(* A key event updates the state glfwGetKey reports; no key callback is
   registered. *)
KeyEvent ==
    /\ pc = "poll"
    /\ hist.polled < MaxEvents
    /\ \E a \in {"PRESS", "RELEASE"} :
         /\ a # win.escKey
         /\ win' = [win EXCEPT !.escKey = a]
    /\ hist' = [hist EXCEPT !.polled = @ + 1]
    /\ UNCHANGED <<pc, glfw, gl, log, exitStatus, iter, frame>>

(* The platform's close affordance sets the close flag. *)
CloseRequest ==
    /\ pc = "poll"
    /\ hist.polled < MaxEvents
    /\ win' = [win EXCEPT !.shouldClose = TRUE]
    /\ hist' = NoteFlag([hist EXCEPT !.polled = @ + 1], win, win', iter)
    /\ UNCHANGED <<pc, glfw, gl, log, exitStatus, iter, frame>>

(* glfwPollEvents returns: back to the loop condition *)
PollReturn ==
    /\ pc = "poll"
    /\ frame' = Append(frame, "poll")
    /\ pc' = "loop_cond"
    /\ UNCHANGED <<win, glfw, gl, log, exitStatus, iter, hist>>

----------------------------------------------------------------------------
(* Teardown, lines 250-256 *)

(* Mutant: the program is deleted first and the vertex array last. *)
DeleteObjectsReversed(g) ==
    glDelete(glDelete(glDelete(glDelete(g, "shader_program"), "EBO"), "VBO"),
             "VAO")

(* Mutant: the element buffer is forgotten and the vertex buffer deleted
   twice. *)
DeleteObjectsTwice(g) ==
    glDelete(glDelete(glDelete(glDelete(g, "VAO"), "VBO"), "VBO"),
             "shader_program")

(* lines 250-253 *)
DeleteObjects(g) ==
    glDelete(glDelete(glDelete(glDelete(g, "VAO"), "VBO"), "EBO"),
             "shader_program")

Teardown ==
    /\ pc = "teardown"
    /\ gl' = DeleteObjects(gl)
    /\ pc' = "terminate"
    /\ UNCHANGED <<win, glfw, log, exitStatus, iter, frame, hist>>

(* lines 255-256 *)
Terminate ==
    /\ pc = "terminate"
    /\ glfw' = glfwTerminate(glfw, win)
    /\ win' = TerminatedWindow(win)
    /\ exitStatus' = <<0>>
    /\ pc' = "done"
    /\ UNCHANGED <<gl, log, iter, frame, hist>>

Next ==
    \/ InitGlfw \/ CreateWindow \/ MakeContextCurrent \/ LoadGlad
    \/ SetViewport \/ VertexShader \/ FragmentShader \/ LinkProgram
    \/ DeleteShaders \/ GenObjects \/ UploadVertices \/ UploadIndices
    \/ VertexLayout
    \/ LoopCond \/ EscapeCheck \/ Clear \/ Bind \/ Draw \/ Unbind
    \/ SwapBuffers \/ ResizeEvent \/ KeyEvent \/ CloseRequest \/ PollReturn
    \/ Teardown \/ Terminate

Spec == Init /\ [][Next]_vars


----------------------------------------------------------------------------
(* Claims *)

LoopPcs == {"esc_check", "clear", "bind", "draw", "unbind", "swap", "poll"}

(* C1: once the close flag is set the loop exits at the next evaluation of
   its condition: no step of the loop body runs in a later iteration than the
   one in which the flag became set, and no iteration is entered with the
   flag set. *)
C1_LoopExitsAfterClose ==
    win.shouldClose =>
        /\ win.handle # "none"
        /\ hist.flagIter = iter
        /\ pc # "esc_check"
        /\ pc \in LoopPcs \cup {"loop_cond", "teardown", "terminate", "done"}

C1_Witness ==
    /\ pc = "teardown"
    /\ win.shouldClose
    /\ iter = 2
    /\ ~hist.escSeen

(* C2: in an iteration whose Escape check saw the key pressed the program
   sets the close flag to true exactly once, and no step ever takes the flag
   from set to unset. *)
C2_SetInIteration ==
    (pc \in (LoopPcs \ {"esc_check"}) \cup {"loop_cond"} /\ hist.escSeen) =>
        /\ win.shouldClose
        /\ win.setCalls - hist.entrySetCalls = 1

C2_CloseFlagSetOncePerPress ==
    /\ []C2_SetInIteration
    /\ [][win.shouldClose => win'.shouldClose]_vars

C2_Witness ==
    /\ pc = "done"
    /\ hist.escSeen
    /\ win.shouldClose
    /\ win.setCalls = 1

(* C3: at the end of main reached through the render loop every GPU object
   (VAO, VBO, EBO, program, both shaders) was created exactly once and
   deleted exactly once; at no time is an object deleted more often than
   created. *)
C3_EveryObjectReleasedOnce ==
    /\ \A o \in Objects : gl.deleted[o] <= gl.created[o] /\ gl.created[o] <= 1
    /\ (pc = "done" /\ hist.loopExited) =>
          \A o \in Objects : gl.created[o] = 1 /\ gl.deleted[o] = 1

C3_Witness ==
    /\ pc = "done"
    /\ hist.loopExited
    /\ gl.deleteOrder = <<"vertex_shader", "fragment_shader", "VAO", "VBO",
                          "EBO", "shader_program">>


(* C4: in every terminating execution in which glfwCreateWindow returned a
   window, the window/context has been destroyed exactly once when main
   returns, the loader-failure execution included. *)
C4_WindowDestroyedOnce ==
    (pc = "done" /\ win.handle # "null") => glfw.destroyed = 1

(* What the code does: the window is destroyed exactly once on the path
   through the render loop and never on the loader-failure path. *)
C4_DestroyedOnlyAfterLoop ==
    (pc = "done" /\ win.handle # "null") =>
        glfw.destroyed = (IF hist.loopExited THEN 1 ELSE 0)

Range(q) == {q[i] : i \in 1..Len(q)}

Failures(g) ==
    {m \in {VertexMsg, FragmentMsg, ProgramMsg} :
        \/ m = VertexMsg /\ ~g.compiled["vertex_shader"]
        \/ m = FragmentMsg /\ ~g.compiled["fragment_shader"]
        \/ m = ProgramMsg /\ ~g.linked}

SetupPcs == {"init", "create_window", "make_current", "load_glad", "viewport",
             "vertex_shader", "fragment_shader", "link_program"}

(* C5: after the link step the error log holds exactly one diagnostic per
   failed step (vertex compile, fragment compile, link) and none for a step
   that succeeded; each step was tried once and nothing was retried; the
   program does not exit early or with a nonzero status: it reaches the
   render loop and every draw uses the shader program, usable or not. *)
C5_ShaderFailureIsSoft ==
    (gl.loaded /\ pc \notin SetupPcs) =>
        /\ Range(log) = Failures(gl)
        /\ Len(log) = Cardinality(Failures(gl))
        /\ \A s \in Shaders : gl.compiles[s] = 1
        /\ gl.links = 1
        /\ exitStatus # << -1 >>
        /\ (pc = "done" => /\ exitStatus = <<0>>
                           /\ hist.loopExited
                           /\ gl.draws >= 1)
        /\ (gl.draws > 0 => gl.lastDraw.program = "shader_program")
        /\ (pc \in {"unbind", "swap", "poll"} => gl.draws = iter)

C5_Witness ==
    /\ pc = "done"
    /\ exitStatus = <<0>>
    /\ gl.draws > 0
    /\ gl.compiled["vertex_shader"]
    /\ ~gl.compiled["fragment_shader"]
    /\ ~gl.linked
    /\ log = <<FragmentMsg, ProgramMsg>>

(* C6: if glfwCreateWindow returns null the program calls glfwTerminate once
   and returns -1, having issued no OpenGL command, not loaded the GPU
   functions, and entered neither the render loop nor teardown. *)
C6_WindowFailureExits ==
    win.handle = "null" =>
        /\ pc = "done"
        /\ exitStatus = << -1 >>
        /\ glfw.terminates = 1
        /\ gl.calls = 0
        /\ glfw.loads = 0
        /\ ~gl.loaded
        /\ iter = 0
        /\ ~hist.loopExited
        /\ gl.deleteOrder = <<>>
        /\ log = <<WindowMsg>>

C6_Witness ==
    /\ win.handle = "null"
    /\ pc = "done"
    /\ glfw.terminates = 1

GladFailed == glfw.loads = 1 /\ ~gl.loaded

(* C7: when main has returned, the status is 0 exactly if the render loop
   exited and -1 exactly if window creation or GPU function loading failed;
   after a loader failure no OpenGL command was ever issued and the loop was
   never entered. *)
C7_ExitStatus ==
    /\ pc = "done" =>
          /\ exitStatus \in {<<0>>, << -1 >>}
          /\ (exitStatus = <<0>>) <=> hist.loopExited
          /\ (exitStatus = << -1 >>) <=> (win.handle = "null" \/ GladFailed)
    /\ pc # "done" => exitStatus = <<>>
    /\ GladFailed => pc = "done" /\ gl.calls = 0 /\ iter = 0

C7_Witness ==
    /\ pc = "done"
    /\ GladFailed
    /\ win.handle = "open"
    /\ exitStatus = << -1 >>

(* C8: a step that delivers a resize event (W, H) to the callback issues
   exactly one viewport update, with (0, 0, W, H), and changes nothing else:
   buffers, program, vertex layout, bindings, the window and its close flag
   stay as they were. *)
C8_ResizeOnlyUpdatesViewport ==
    [][hist'.resizes = hist.resizes + 1 =>
         /\ gl'.viewport = <<0, 0, hist'.lastResize[1], hist'.lastResize[2]>>
         /\ gl'.viewportCalls = gl.viewportCalls + 1
         /\ gl'.calls = gl.calls + 1
         /\ gl' = [gl EXCEPT !.viewport = gl'.viewport,
                             !.viewportCalls = gl'.viewportCalls,
                             !.calls = gl'.calls]
         /\ UNCHANGED <<win, glfw, log, pc, iter, frame, exitStatus>>]_vars

C8_Witness ==
    /\ hist.resizes = 2
    /\ hist.lastResize = <<1024, 480>>
    /\ gl.viewport = <<0, 0, 1024, 480>>
    /\ gl.viewportCalls = 3

FullFrame == <<"esc_check", "clear", "use_program", "bind_vao", "draw",
               "unbind_vao", "swap", "poll">>

Done(p) ==
    CASE p = "esc_check" -> 0
      [] p = "clear" -> 1
      [] p = "bind" -> 2
      [] p = "draw" -> 4
      [] p = "unbind" -> 5
      [] p = "swap" -> 6
      [] p = "poll" -> 7
      [] OTHER -> 8

(* C9: every iteration performs, once each and in this order, the Escape
   check, the clear to the fixed colour, the program and vertex-array binds,
   the indexed draw, the vertex-array unbind, the buffer swap and the event
   poll: at every point of the loop the steps done so far are the matching
   prefix of that order, and a finished iteration has done all of them, also
   when the close flag was set in it. *)
C9_FrameOrder ==
    /\ iter = 0 => frame = <<>>
    /\ iter > 0 =>
          /\ frame = SubSeq(FullFrame, 1, Done(pc))
          /\ gl.clears = (IF Done(pc) >= 2 THEN iter ELSE iter - 1)
          /\ gl.draws = (IF Done(pc) >= 5 THEN iter ELSE iter - 1)
          /\ glfw.swaps = (IF Done(pc) >= 7 THEN iter ELSE iter - 1)
          /\ (gl.clears > 0 => gl.clearColour = ClearColour)
          /\ (Done(pc) \in {4, 5} <=>
                (gl.boundVAO = "VAO" /\ gl.program = "shader_program"))

C9_Witness ==
    /\ pc = "loop_cond"
    /\ iter = 2
    /\ hist.escSeen
    /\ win.shouldClose
    /\ frame = FullFrame

(* C10: every draw call asks for 3 indices of type unsigned int from offset
   0 as triangles (one triangle), is issued with the VAO bound whose element
   buffer holds the 3 indices and whose attribute 0 reads the 9-float vertex
   buffer, and there is exactly one draw call per iteration. *)
C10_DrawCall ==
    /\ gl.draws = (IF pc \in {"esc_check", "clear", "bind", "draw"}
                   THEN iter - 1 ELSE iter)
    /\ gl.draws > 0 =>
          /\ gl.lastDraw.mode = "GL_TRIANGLES"
          /\ gl.lastDraw.count = 3
          /\ gl.lastDraw.count \div 3 = 1
          /\ gl.lastDraw.type = "GL_UNSIGNED_INT"
          /\ gl.lastDraw.offset = 0
          /\ gl.lastDraw.vao = "VAO"
          /\ gl.lastDraw.element = "EBO"
          /\ gl.lastDraw.attrib.buffer = "VBO"
          /\ gl.lastDraw.attrib.enabled
          /\ gl.bufData["EBO"].data = indices
          /\ Len(gl.bufData["EBO"].data) = gl.lastDraw.count
          /\ gl.bufData["VBO"].data = vertices
          /\ Len(gl.bufData["VBO"].data) = 9

C10_Witness ==
    /\ gl.draws = 2
    /\ pc = "unbind"
    /\ gl.lastDraw.count = 3
    /\ gl.lastDraw.element = "EBO"


TeardownOrder == <<"VAO", "VBO", "EBO", "shader_program">>

LongLived == {"VAO", "VBO", "EBO", "shader_program"}

(* C11: teardown runs exactly when the render loop has exited and on no
   early-exit path; it deletes the vertex array, the vertex buffer, the index
   buffer and the program in that order while the window still exists, the
   window/context is destroyed only after that and main returns 0; once one
   of these objects is deleted or GLFW is terminated, no further OpenGL
   command is issued except the remaining deletions of teardown itself. *)
C11_TeardownState ==
    /\ (\E o \in LongLived : gl.deleted[o] > 0) <=>
          (hist.loopExited /\ pc \in {"terminate", "done"})
    /\ hist.loopExited <=> pc \in {"teardown", "terminate"}
                           \/ (pc = "done" /\ exitStatus = <<0>>)
    /\ pc = "teardown" => glfw.terminates = 0 /\ win.handle = "open"
    /\ pc = "terminate" =>
          /\ gl.deleteOrder = <<"vertex_shader", "fragment_shader">> \o TeardownOrder
          /\ glfw.terminates = 0
          /\ glfw.current
          /\ win.handle = "open"
    /\ (pc = "done" /\ hist.loopExited) =>
          /\ gl.deleteOrder = <<"vertex_shader", "fragment_shader">> \o TeardownOrder
          /\ glfw.terminates = 1
          /\ glfw.destroyed = 1
          /\ win.handle = "destroyed"
          /\ exitStatus = <<0>>
    /\ (pc = "done" /\ ~hist.loopExited) =>
          /\ gl.deleteOrder = <<>>
          /\ exitStatus = << -1 >>

C11_TeardownOrder ==
    /\ []C11_TeardownState
    /\ [][((\E o \in LongLived : gl.deleted[o] > 0) \/ glfw.terminates > 0)
             => gl'.calls = gl.calls]_vars

C11_Witness ==
    /\ pc = "done"
    /\ hist.loopExited
    /\ gl.deleteOrder = <<"vertex_shader", "fragment_shader">> \o TeardownOrder
    /\ glfw.destroyed = 1
    /\ exitStatus = <<0>>

(* C12: every gl* command, the glViewport of the resize callback included,
   is issued while the window's context is current and after gladLoadGLLoader
   returned success: none is ever counted as issued before the loader
   succeeded. *)
C12_NoEarlyCommand ==
    /\ gl.early = 0
    /\ gl.calls > 0 => gl.loaded /\ glfw.loads = 1 /\ win.handle # "null"
    /\ hist.resizes > 0 => gl.loaded /\ gl.viewportCalls = 1 + hist.resizes

C12_GladBeforeGL ==
    /\ []C12_NoEarlyCommand
    /\ [][gl'.calls > gl.calls => gl.loaded /\ glfw.current]_vars

C12_Witness ==
    /\ gl.loaded
    /\ hist.resizes > 0
    /\ gl.draws > 0
    /\ gl.early = 0
    /\ pc = "done"


AfterLoopPcs == {"loop_cond", "teardown", "terminate", "done"}

(* The flag was set by the Escape check of the current iteration exactly if
   that check saw the key pressed (the iteration began with the flag unset);
   otherwise it was set by the platform during glfwPollEvents. *)
SetByEscape == win.shouldClose /\ hist.escSeen

SetByPlatform == win.shouldClose /\ ~hist.escSeen

(* C14: when the platform sets the close flag during glfwPollEvents no clear,
   draw or swap is pending before the loop exits: the frame of that iteration
   is already complete and no other is begun. When the Escape check sets it,
   the frame of that iteration is still to come (nothing of it is rendered
   yet) and is rendered and presented in full, clear, draw, swap and poll,
   before the loop exits, and no further frame follows. *)
C14_FramesAfterClose ==
    /\ SetByPlatform =>
          /\ pc \in {"poll"} \cup AfterLoopPcs
          /\ hist.flagIter = iter
          /\ gl.clears = iter /\ gl.draws = iter /\ glfw.swaps = iter
    /\ SetByEscape =>
          /\ hist.flagIter = iter
          /\ pc # "esc_check"
          /\ pc = "clear" =>
                gl.clears = iter - 1 /\ gl.draws = iter - 1
                                     /\ glfw.swaps = iter - 1
          /\ pc \in AfterLoopPcs =>
                /\ frame = FullFrame
                /\ gl.clears = iter /\ gl.draws = iter /\ glfw.swaps = iter

C14_Witness ==
    /\ SetByEscape
    /\ pc = "teardown"
    /\ iter = 2
    /\ frame = FullFrame
    /\ gl.draws = 2


----------------------------------------------------------------------------
(***************************************************************************)
(* The program of src/unnamed/part_000: an earlier main() that uploads the *)
(* vertex buffer and prepares the vertex shader first, and only then       *)
(* creates the window and loads the GPU functions. Its two callbacks have  *)
(* the same bodies as those of triangle.cpp (lines 148-156) and the same   *)
(* operators model them. It shares the state variables; its positions are  *)
(* the "p0_..." values of pc.                                              *)
(***************************************************************************)

P0_ClearColour == << 20, 30, 30, 100 >>

P0_VertexMsg == "ERROR::SHADER::VERTEX::COMPILATION_FAILED"

P0_Init ==
    /\ pc = "p0_init"
    /\ win = WinInit
    /\ glfw = GlfwInit
    /\ gl = GLInit
    /\ log = <<>>
    /\ exitStatus = <<>>
    /\ iter = 0
    /\ frame = <<>>
    /\ hist = HistInit

(* line 34 *)
P0_InitGlfw ==
    /\ pc = "p0_init"
    /\ glfw' = [glfw EXCEPT !.inited = TRUE]
    /\ pc' = "p0_vbo"
    /\ UNCHANGED <<win, gl, log, exitStatus, iter, frame, hist>>

(* lines 52-65: glGenBuffers, glBindBuffer, glBufferData with
   vertices.size() (9) as the byte count. The GLAD function pointers are not
   loaded yet, so the first call is undefined behaviour: the process either
   dies in it or the calls go through. *)
P0_UploadVertices ==
    /\ pc = "p0_vbo"
    /\ \E crash \in BOOLEAN :
         IF crash
         THEN /\ gl' = Cmd(gl)
              /\ pc' = "p0_crashed"
         ELSE /\ gl' = glBufferData(
                          glBindBuffer(glCreate(gl, "VBO"),
                                       "GL_ARRAY_BUFFER", "VBO"),
                          "GL_ARRAY_BUFFER", Len(vertices), vertices,
                          "GL_STATIC_DRAW")
              /\ pc' = "p0_shader"
    /\ UNCHANGED <<win, glfw, log, exitStatus, iter, frame, hist>>

(* lines 68-85: the shader is created and given its source but never
   compiled; its compile status is queried and a failure printed. *)
P0_VertexShader ==
    /\ pc = "p0_shader"
    /\ LET g == glShaderSource(glCreate(gl, "vertex_shader"),
                               "vertex_shader", "vertex_shader")
           success == g.compiled["vertex_shader"]
       IN  /\ gl' = QueryStatus(g, success)
           /\ log' = ReportFailure(log, success, P0_VertexMsg)
    /\ pc' = "p0_create_window"
    /\ UNCHANGED <<win, glfw, exitStatus, iter, frame, hist>>

(* lines 94-104 *)
P0_CreateWindow ==
    /\ pc = "p0_create_window"
    /\ \E created \in BOOLEAN :
         IF created
         THEN /\ win' = [win EXCEPT !.handle = "open"]
              /\ pc' = "p0_make_current"
              /\ UNCHANGED <<glfw, log, exitStatus>>
         ELSE /\ win' = [win EXCEPT !.handle = "null"]
              /\ log' = Append(log, WindowMsg)
              /\ glfw' = glfwTerminate(glfw, win)
              /\ exitStatus' = << -1 >>
              /\ pc' = "p0_done"
    /\ UNCHANGED <<gl, iter, frame, hist>>

(* line 106 *)
P0_MakeContextCurrent ==
    /\ pc = "p0_make_current"
    /\ glfw' = [glfw EXCEPT !.current = TRUE]
    /\ pc' = "p0_load_glad"
    /\ UNCHANGED <<win, gl, log, exitStatus, iter, frame, hist>>

(* lines 109-112 *)
P0_LoadGlad ==
    /\ pc = "p0_load_glad"
    /\ \E loaded \in BOOLEAN :
         /\ gl' = [gl EXCEPT !.loaded = loaded /\ glfw.current]
         /\ glfw' = [glfw EXCEPT !.loads = @ + 1]
         /\ IF loaded
            THEN /\ pc' = "p0_viewport"
                 /\ UNCHANGED <<log, exitStatus>>
            ELSE /\ pc' = "p0_done"
                 /\ log' = Append(log, GladMsg)
                 /\ exitStatus' = << -1 >>
    /\ UNCHANGED <<win, iter, frame, hist>>

(* lines 117-118 *)
P0_SetViewport ==
    /\ pc = "p0_viewport"
    /\ gl' = glViewport(gl, 0, 0, WINDOW_WIDTH, WINDOW_HEIGHT)
    /\ glfw' = [glfw EXCEPT !.resizeCb = TRUE]
    /\ pc' = "p0_loop_cond"
    /\ UNCHANGED <<win, log, exitStatus, iter, frame, hist>>

(* line 121 *)
P0_LoopCond ==
    /\ pc = "p0_loop_cond"
    /\ IF ~win.shouldClose
       THEN /\ iter < MaxFrames
            /\ iter' = iter + 1
            /\ frame' = <<>>
            /\ hist' = [hist EXCEPT !.entrySetCalls = win.setCalls,
                                    !.escSeen = FALSE]
            /\ pc' = "p0_esc_check"
       ELSE /\ hist' = [hist EXCEPT !.loopExited = TRUE]
            /\ pc' = "p0_terminate"
            /\ UNCHANGED <<iter, frame>>
    /\ UNCHANGED <<win, glfw, gl, log, exitStatus>>

(* lines 123, 152-156 *)
P0_EscapeCheck ==
    /\ pc = "p0_esc_check"
    /\ win' = escape_key_pressed_callback(win)
    /\ hist' = NoteFlag([hist EXCEPT !.escSeen = (win.escKey = "PRESS")],
                        win, win', iter)
    /\ frame' = Append(frame, "esc_check")
    /\ pc' = "p0_clear"
    /\ UNCHANGED <<glfw, gl, log, exitStatus, iter>>

(* lines 130-131 *)
P0_Clear ==
    /\ pc = "p0_clear"
    /\ gl' = glClear(glClearColor(gl, P0_ClearColour))
    /\ frame' = Append(frame, "clear")
    /\ pc' = "p0_swap"
    /\ UNCHANGED <<win, glfw, log, exitStatus, iter, hist>>

(* line 136 *)
P0_SwapBuffers ==
    /\ pc = "p0_swap"
    /\ glfw' = [glfw EXCEPT !.swaps = @ + 1]
    /\ frame' = Append(frame, "swap")
    /\ hist' = [hist EXCEPT !.polled = 0]
    /\ pc' = "p0_poll"
    /\ UNCHANGED <<win, gl, log, exitStatus, iter>>

(* line 141, glfwPollEvents dispatching a framebuffer-size event to the
   callback of lines 148-150 *)
P0_ResizeEvent ==
    /\ pc = "p0_poll"
    /\ hist.polled < MaxEvents
    /\ glfw.resizeCb
    /\ \E w \in Widths, h \in Heights :
         /\ gl' = framebuffer_resize_callback(gl, w, h)
         /\ hist' = [hist EXCEPT !.polled = @ + 1, !.resizes = @ + 1,
                                 !.lastResize = <<w, h>>]
    /\ UNCHANGED <<pc, win, glfw, log, exitStatus, iter, frame>>

(* line 141: a key event *)
P0_KeyEvent ==
    /\ pc = "p0_poll"
    /\ hist.polled < MaxEvents
    /\ \E a \in {"PRESS", "RELEASE"} :
         /\ a # win.escKey
         /\ win' = [win EXCEPT !.escKey = a]
    /\ hist' = [hist EXCEPT !.polled = @ + 1]
    /\ UNCHANGED <<pc, glfw, gl, log, exitStatus, iter, frame>>

(* line 141: the platform's close request *)
P0_CloseRequest ==
    /\ pc = "p0_poll"
    /\ hist.polled < MaxEvents
    /\ win' = [win EXCEPT !.shouldClose = TRUE]
    /\ hist' = NoteFlag([hist EXCEPT !.polled = @ + 1], win, win', iter)
    /\ UNCHANGED <<pc, glfw, gl, log, exitStatus, iter, frame>>

(* lines 141-142 *)
P0_PollReturn ==
    /\ pc = "p0_poll"
    /\ frame' = Append(frame, "poll")
    /\ pc' = "p0_loop_cond"
    /\ UNCHANGED <<win, glfw, gl, log, exitStatus, iter, hist>>

(* lines 144-145 *)
P0_Terminate ==
    /\ pc = "p0_terminate"
    /\ glfw' = glfwTerminate(glfw, win)
    /\ win' = TerminatedWindow(win)
    /\ exitStatus' = <<0>>
    /\ pc' = "p0_done"
    /\ UNCHANGED <<gl, log, iter, frame, hist>>

P0_Next ==
    \/ P0_InitGlfw \/ P0_UploadVertices \/ P0_VertexShader
    \/ P0_CreateWindow \/ P0_MakeContextCurrent \/ P0_LoadGlad
    \/ P0_SetViewport \/ P0_LoopCond \/ P0_EscapeCheck \/ P0_Clear
    \/ P0_SwapBuffers \/ P0_ResizeEvent \/ P0_KeyEvent \/ P0_CloseRequest
    \/ P0_PollReturn \/ P0_Terminate

P0_Spec == P0_Init /\ [][P0_Next]_vars

(* C13: in the program of part_000 no gl* command is issued before a window
   and its context exist and gladLoadGLLoader has returned success. *)
C13_GladBeforeGL ==
    /\ gl.early = 0
    /\ gl.calls > 0 => gl.loaded /\ win.handle \in {"open", "destroyed"}

====
